---- MODULE Spec2Model ----
(***************************************************************************)
(* Fitness tracker REST API: users, workout entries and personal records   *)
(* in a relational store, JWT authentication in front of the workout       *)
(* routes.  Every HTTP request is one action: the middleware chain and the *)
(* route handler of the request, with every query they issue.              *)
(*                                                                         *)
(* JavaScript values are records tagged with their typeof ("t"); strings   *)
(* that the code measures, trims, escapes or lower-cases are sequences of  *)
(* one-character strings.  Time is counted in hours.  Constraint           *)
(* violations of the store (NOT NULL, UNIQUE, FOREIGN KEY, column types)   *)
(* are modelled.  POST /api/workouts is also modelled one awaited query at *)
(* a time (pending holds the requests in flight), where requests overlap   *)
(* and the store may fail a query; POST /api/auth/signup likewise.  The    *)
(* browser client (client) is AuthProvider over localStorage and the       *)
(* default header of apiClient, with WorkoutForm; its calls are answered   *)
(* by the server modelled here, or fail on the way.                        *)
(***************************************************************************)
EXTENDS Integers, Sequences, FiniteSets, TLC

VARIABLES users, workout_entries, personal_records, now, issued, resp, logged, pending,
          client

vars == <<users, workout_entries, personal_records, now, issued, resp, logged, pending, client>>

\* the browser client while no page of the application is open
ClosedClient == [open |-> FALSE]

(***************************************************************************)
(* Bounds of the model.                                                    *)
(***************************************************************************)
MaxUsers == 2        \* rows the users table may hold
MaxTokens == 2       \* tokens the clients keep at a time
MaxTime == 6         \* hours the clock may reach
MaxLogged == 2       \* LogWorkout calls remembered in the history
MaxWeight == 2       \* largest weight a client submits
MaxDate == 2         \* latest calendar day a client submits
MaxPending == 2      \* POST /api/workouts requests in flight at a time

(***************************************************************************)
(* JavaScript values.                                                      *)
(***************************************************************************)
Undefined == [t |-> "undefined"]
Null == [t |-> "null"]
Num(n) == [t |-> "number", v |-> n]
Str(s) == [t |-> "string", v |-> s]
\* the decimal text of n ("n.00"), a non-empty string
DecStr(n) == [t |-> "string", num |-> n]
\* the text 'YYYY-MM-DD' of calendar day d, a non-empty string
DateStr(d) == [t |-> "string", day |-> d]
\* a Date object of calendar day d
DateObj(d) == [t |-> "object", day |-> d]

\* ToNumber of a number or of a decimal text
ToNumber(x) == IF x.t = "number" THEN x.v ELSE x.num

typeof(x) == IF x.t = "null" THEN "object" ELSE x.t

Truthy(x) ==
    CASE x.t = "undefined" -> FALSE
      [] x.t = "null" -> FALSE
      [] x.t = "number" -> x.v # 0
      [] x.t = "string" -> IF "v" \in DOMAIN x THEN x.v # <<>> ELSE TRUE
      [] OTHER -> TRUE

\* x == null in JavaScript: true of null and of undefined
IsNullish(x) == x.t \in {"undefined", "null"}

\* obj.key of an object: undefined when the object has no such property
Prop(obj, key) == IF key \in DOMAIN obj THEN obj[key] ELSE Undefined

(***************************************************************************)
(* Strings: the sanitizers and validators of express-validator.            *)
(***************************************************************************)
RECURSIVE ltrim(_)
ltrim(s) == IF s # <<>> /\ Head(s) = " " THEN ltrim(Tail(s)) ELSE s

RECURSIVE rtrim(_)
rtrim(s) ==
    IF s # <<>> /\ s[Len(s)] = " " THEN rtrim(SubSeq(s, 1, Len(s) - 1)) ELSE s

trim(s) == rtrim(ltrim(s))

EscapeChar(c) ==
    CASE c = "&" -> <<"&", "a", "m", "p", ";">>
      [] c = "<" -> <<"&", "l", "t", ";">>
      [] c = ">" -> <<"&", "g", "t", ";">>
      [] OTHER -> <<c>>

RECURSIVE escape(_)
escape(s) == IF s = <<>> THEN <<>> ELSE EscapeChar(Head(s)) \o escape(Tail(s))

LowerChar(c) ==
    CASE c = "A" -> "a"
      [] c = "B" -> "b"
      [] c = "P" -> "p"
      [] OTHER -> c

RECURSIVE lower(_)
lower(s) == IF s = <<>> THEN <<>> ELSE <<LowerChar(Head(s))>> \o lower(Tail(s))

isEmpty(s) == Len(s) = 0

isLengthMin(s, min) == Len(s) >= min

(***************************************************************************)
(* The users table and userModel.                                          *)
(***************************************************************************)
SALT_ROUNDS == 10

\* bcrypt.hash: a one-way image of the password at the given cost
bcryptHash(password, rounds) == [alg |-> "bcrypt", cost |-> rounds, of |-> password]

\* bcrypt.compare: does the hash come from this password
bcryptCompare(password, hash) == hash = bcryptHash(password, hash.cost)

\* a query parameter as node-postgres sends it: undefined goes as NULL
PgParam(v) == IF IsNullish(v) THEN Null ELSE v

\* column = $n for an integer column: never true of a NULL parameter
SqlEqInt(col, param) == param.t = "number" /\ col = param.v

\* a users row as the JavaScript object node-postgres returns
UserObj(row) ==
    [t |-> "object", id |-> Num(row.id), username |-> Str(row.username),
     password_hash |-> row.password_hash]

findByUsername(tbl, username) ==
    LET hits == SelectSeq(tbl, LAMBDA r : r.username = username)
    IN  IF hits = <<>> THEN Null ELSE UserObj(hits[1])

findById(tbl, id) ==
    LET hits == SelectSeq(tbl, LAMBDA r : SqlEqInt(r.id, PgParam(id)))
    IN  IF hits = <<>> THEN Null
        ELSE [t |-> "object", id |-> Num(hits[1].id), username |-> Str(hits[1].username)]

\* createUser throwing 'Failed to create user.' for a unique violation as well
createUserGenericError(tbl, username, password) ==
    LET hashedPassword == bcryptHash(password, SALT_ROUNDS)
        row == [id |-> Len(tbl) + 1, username |-> username, password_hash |-> hashedPassword]
    IN  IF \E i \in 1..Len(tbl) : tbl[i].username = username
        THEN [error |-> "Failed to create user.", tbl |-> tbl, user |-> Null]
        ELSE [error |-> "", tbl |-> Append(tbl, row),
              user |-> [t |-> "object", id |-> Num(row.id), username |-> Str(row.username)]]

\* INSERT INTO users: id from the SERIAL, username UNIQUE
\* gives the error thrown ("" when none), the new table and the row returned
createUser(tbl, username, password) ==
    LET hashedPassword == bcryptHash(password, SALT_ROUNDS)
        row == [id |-> Len(tbl) + 1, username |-> username, password_hash |-> hashedPassword]
    IN  IF \E i \in 1..Len(tbl) : tbl[i].username = username
        THEN [error |-> "Username already exists.", tbl |-> tbl, user |-> Null]
        ELSE [error |-> "", tbl |-> Append(tbl, row),
              user |-> [t |-> "object", id |-> Num(row.id), username |-> Str(row.username)]]

(***************************************************************************)
(* Tokens: jwt.sign and jwt.verify with the server's secret.               *)
(***************************************************************************)
ExpiresIn == 5

\* the signature of a payload under a key
Signature(payload, key) == [key |-> key, of |-> payload]

jwtSign(payload, key) == [t |-> "string", payload |-> payload, sig |-> Signature(payload, key)]

\* generateToken reading the id from a property the user object does not have
generateTokenWrongIdProperty(user, time) ==
    LET payload == [user |-> [id |-> Prop(user, "_id"), username |-> user.username],
                    iat |-> time, exp |-> time + ExpiresIn]
    IN  jwtSign(payload, "jwtSecret")

generateToken(user, time) ==
    jwtSign([user |-> [id |-> user.id, username |-> user.username],
             iat |-> time, exp |-> time + ExpiresIn], "jwtSecret")

\* jwt.verify called with ignoreExpiration
jwtVerifyIgnoreExpiration(token, time) ==
    IF /\ "sig" \in DOMAIN token
       /\ token.sig = Signature(token.payload, "jwtSecret")
    THEN [err |-> FALSE, decoded |-> token.payload]
    ELSE [err |-> TRUE, decoded |-> Undefined]

\* jwt.verify: err unless the signature is the secret's and the token has not expired
jwtVerify(token, time) ==
    IF /\ "sig" \in DOMAIN token
       /\ token.sig = Signature(token.payload, "jwtSecret")
       /\ time < token.payload.exp
    THEN [err |-> FALSE, decoded |-> token.payload]
    ELSE [err |-> TRUE, decoded |-> Undefined]

\* the middleware without its check for a missing token: jwt.verify sees whatever
\* the header gave
authenticateTokenNoMissingCheck(authHeader, time) ==
    LET token == IF Truthy(authHeader)
                 THEN (IF Len(authHeader.parts) >= 2 THEN authHeader.parts[2] ELSE Undefined)
                 ELSE authHeader
        v == jwtVerify(token, time)
    IN  IF v.err
        THEN [next |-> FALSE, status |-> 403,
              body |-> [message |-> "Token is not valid."], user |-> Undefined]
        ELSE [next |-> TRUE, status |-> 0, body |-> Undefined, user |-> v.decoded]

\* middleware: the outcome for an Authorization header (held as its split(' ') parts)
authenticateToken(authHeader, time) ==
    LET token == IF Truthy(authHeader)
                 THEN (IF Len(authHeader.parts) >= 2 THEN authHeader.parts[2] ELSE Undefined)
                 ELSE authHeader
    IN  IF IsNullish(token)
        THEN [next |-> FALSE, status |-> 401,
              body |-> [message |-> "Access token is missing or invalid."], user |-> Undefined]
        ELSE LET v == jwtVerify(token, time)
             IN  IF v.err
                 THEN [next |-> FALSE, status |-> 403,
                       body |-> [message |-> "Token is not valid."], user |-> Undefined]
                 ELSE [next |-> TRUE, status |-> 0, body |-> Undefined, user |-> v.decoded]

(***************************************************************************)
(* Request validation of the auth routes.                                  *)
(***************************************************************************)
Errors(checks) ==
    LET failed == SelectSeq(checks, LAMBDA c : c.failed)
    IN  [i \in 1..Len(failed) |-> [param |-> failed[i].param, msg |-> failed[i].msg]]

\* the chain runs in order: each sanitizer's output is what the next validator sees
signupValidationRules(body) ==
    LET username == escape(trim(body.username))
    IN  [body |-> [username |-> username, password |-> body.password],
         errors |-> Errors(<<
            [failed |-> isEmpty(body.username), param |-> "username",
             msg |-> "Username is required."],
            [failed |-> ~isLengthMin(username, 3), param |-> "username",
             msg |-> "Username must be at least 3 characters long."],
            [failed |-> ~isLengthMin(body.password, 6), param |-> "password",
             msg |-> "Password must be at least 6 characters long."] >>)]

loginValidationRules(body) ==
    LET username == escape(trim(body.username))
    IN  [body |-> [username |-> username, password |-> body.password],
         errors |-> Errors(<<
            [failed |-> isEmpty(body.username), param |-> "username",
             msg |-> "Username is required."],
            [failed |-> isEmpty(body.password), param |-> "password",
             msg |-> "Password is required."] >>)]

\* validate: 400 with the extracted errors
validate(errors) == [status |-> 400, body |-> [errors |-> errors]]

UserExists == [status |-> 400, body |-> [errors |-> <<[param |-> "username", msg |-> "User already exists"]>>]]

InvalidCredentials == [status |-> 400, body |-> [errors |-> <<[param |-> "general", msg |-> "Invalid credentials"]>>]]

(***************************************************************************)
(* What the clients send.                                                  *)
(***************************************************************************)
Usernames ==
    { <<>>, <<"a", "b">>, <<"<">>, <<"a", "b", "c">>, <<" ", "a", "b", "c">>,
      <<"&", "l", "t", ";">> }

Passwords ==
    { <<>>, <<"p", "w", "1", "2", "3">>, <<"s", "e", "c", "r", "e", "t">>,
      <<"h", "u", "n", "t", "e", "r", "2">> }

Bearer(token) == [t |-> "string", parts |-> <<"Bearer", token>>]

BearerOnly == [t |-> "string", parts |-> <<"Bearer">>]

Malformed == Str(<<"x">>)

\* tokens a client made up: a held token with another user id written into its
\* payload, and a payload signed with a key that is not the server's
ForgedTokens ==
    { f \in { [tk EXCEPT !.payload.user.id = Num(i)] : tk \in issued, i \in 1..MaxUsers } :
        f.payload # f.sig.of }
    \cup { jwtSign(tk.payload, "guess") : tk \in issued }

AuthHeaders ==
    {Undefined, BearerOnly} \cup {Bearer(tk) : tk \in issued \cup ForgedTokens \cup {Malformed}}

\* the tokens the clients hold once a new one is issued: the oldest ones make room
Wallets(held, token) ==
    IF Cardinality(held \cup {token}) <= MaxTokens
    THEN {held \cup {token}}
    ELSE {(held \ {old}) \cup {token} : old \in held}

(***************************************************************************)
(* The last response: the request, the status and body sent, req.user as   *)
(* the middleware left it, the user id the handler used, whether a route   *)
(* handler ran and how many queries the request issued.                    *)
(***************************************************************************)
Response(op, req, status, body, reqUser, userId, ran, queries) ==
    [op |-> op, req |-> req, status |-> status, body |-> body, user |-> reqUser,
     userId |-> userId, ran |-> ran, queries |-> queries]

NoResponse == Response("none", Undefined, 0, Undefined, Undefined, Undefined, FALSE, 0)

(***************************************************************************)
(* POST /api/auth/signup                                                   *)
(***************************************************************************)
\* the signup handler answering a taken username with a token for its owner
signupHandlerReissues(tbl, body, time) ==
    LET existingUser == findByUsername(tbl, body.username)
    IN  IF Truthy(existingUser)
        THEN LET token == generateToken(existingUser, time)
             IN  [status |-> 201,
                  body |-> [token |-> token,
                            user |-> [id |-> existingUser.id,
                                      username |-> existingUser.username]],
                  tbl |-> tbl, token |-> token, queries |-> 1]
        ELSE LET c == createUser(tbl, body.username, body.password)
                 token == generateToken(c.user, time)
             IN  [status |-> 201,
                  body |-> [token |-> token,
                            user |-> [id |-> c.user.id, username |-> c.user.username]],
                  tbl |-> c.tbl, token |-> token, queries |-> 2]

signupHandler(tbl, body, time) ==
    LET existingUser == findByUsername(tbl, body.username)
    IN  IF Truthy(existingUser)
        THEN [status |-> UserExists.status, body |-> UserExists.body, tbl |-> tbl,
              token |-> Null, queries |-> 1]
        ELSE LET c == createUser(tbl, body.username, body.password)
                 token == generateToken(c.user, time)
             IN  IF c.error = "Username already exists."
                 THEN [status |-> UserExists.status, body |-> UserExists.body, tbl |-> tbl,
                       token |-> Null, queries |-> 2]
                 ELSE IF c.error # ""
                 THEN [status |-> 500, body |-> [msg |-> "Server error during signup."],
                       tbl |-> tbl, token |-> Null, queries |-> 2]
                 ELSE [status |-> 201,
                       body |-> [token |-> token,
                                 user |-> [id |-> c.user.id, username |-> c.user.username]],
                       tbl |-> c.tbl, token |-> token, queries |-> 2]

Signup(username, password) ==
    LET req == [username |-> username, password |-> password]
        v == signupValidationRules(req)
    IN  IF v.errors # <<>>
        THEN /\ resp' = Response("signup", req, validate(v.errors).status,
                                 validate(v.errors).body, Undefined, Undefined, FALSE, 0)
             /\ UNCHANGED <<users, workout_entries, personal_records, now, issued, logged, pending, client>>
        ELSE LET r == signupHandler(users, v.body, now)
             IN  /\ r.tbl # users => Len(users) < MaxUsers
                 /\ users' = r.tbl
                 /\ issued' \in (IF r.token = Null THEN {issued} ELSE Wallets(issued, r.token))
                 /\ resp' = Response("signup", req, r.status, r.body, Undefined, Undefined,
                                     TRUE, r.queries)
                 /\ UNCHANGED <<workout_entries, personal_records, now, logged, pending, client>>

(***************************************************************************)
(* POST /api/auth/login                                                    *)
(***************************************************************************)
\* the login handler telling a missing user from a wrong password
loginHandlerNamesMissingUser(tbl, body, time) ==
    LET user == findByUsername(tbl, body.username)
    IN  IF ~Truthy(user)
        THEN [status |-> 404, body |-> [errors |-> <<[param |-> "username",
                                                     msg |-> "User not found"]>>],
              token |-> Null]
        ELSE IF ~bcryptCompare(body.password, user.password_hash)
        THEN [status |-> InvalidCredentials.status, body |-> InvalidCredentials.body,
              token |-> Null]
        ELSE LET token == generateToken(user, time)
             IN  [status |-> 200,
                  body |-> [token |-> token,
                            user |-> [id |-> user.id, username |-> user.username]],
                  token |-> token]

loginHandler(tbl, body, time) ==
    LET user == findByUsername(tbl, body.username)
    IN  IF ~Truthy(user)
        THEN [status |-> InvalidCredentials.status, body |-> InvalidCredentials.body,
              token |-> Null]
        ELSE IF ~bcryptCompare(body.password, user.password_hash)
        THEN [status |-> InvalidCredentials.status, body |-> InvalidCredentials.body,
              token |-> Null]
        ELSE LET token == generateToken(user, time)
             IN  [status |-> 200,
                  body |-> [token |-> token,
                            user |-> [id |-> user.id, username |-> user.username]],
                  token |-> token]

Login(username, password) ==
    LET req == [username |-> username, password |-> password]
        v == loginValidationRules(req)
    IN  IF v.errors # <<>>
        THEN /\ resp' = Response("login", req, validate(v.errors).status,
                                 validate(v.errors).body, Undefined, Undefined, FALSE, 0)
             /\ UNCHANGED <<users, workout_entries, personal_records, now, issued, logged, pending, client>>
        ELSE LET r == loginHandler(users, v.body, now)
             IN  /\ issued' \in (IF r.token = Null THEN {issued} ELSE Wallets(issued, r.token))
                 /\ resp' = Response("login", req, r.status, r.body, Undefined, Undefined,
                                     TRUE, 1)
                 /\ UNCHANGED <<users, workout_entries, personal_records, now, logged, pending, client>>

(***************************************************************************)
(* GET /api/auth/verify-token                                              *)
(***************************************************************************)
\* the handler reading the id where generateToken puts it: req.user.user.id
verifyTokenHandlerNestedId(tbl, reqUser) ==
    LET userFromDb == findById(tbl, Prop(Prop(reqUser, "user"), "id"))
    IN  IF ~Truthy(userFromDb)
        THEN [status |-> 404, body |-> [msg |-> "User associated with this token not found."]]
        ELSE [status |-> 200, body |-> [id |-> userFromDb.id, username |-> userFromDb.username]]

verifyTokenHandler(tbl, reqUser) ==
    LET userFromDb == findById(tbl, Prop(reqUser, "id"))
    IN  IF ~Truthy(userFromDb)
        THEN [status |-> 404, body |-> [msg |-> "User associated with this token not found."]]
        ELSE [status |-> 200, body |-> [id |-> userFromDb.id, username |-> userFromDb.username]]

VerifyToken(authHeader) ==
    LET a == authenticateToken(authHeader, now)
    IN  /\ resp' = IF ~a.next
                   THEN Response("verify-token", authHeader, a.status, a.body, Undefined,
                                 Undefined, FALSE, 0)
                   ELSE LET r == verifyTokenHandler(users, a.user)
                        IN  Response("verify-token", authHeader, r.status, r.body, a.user,
                                     Prop(a.user, "id"), TRUE, 1)
        /\ UNCHANGED <<users, workout_entries, personal_records, now, issued, logged, pending, client>>

(***************************************************************************)
(* Time passes.                                                            *)
(***************************************************************************)
Tick ==
    /\ now < MaxTime
    /\ now' = now + 1
    /\ UNCHANGED <<users, workout_entries, personal_records, issued, resp, logged, pending, client>>

(***************************************************************************)
(* The authentication service from an empty store.                         *)
(***************************************************************************)
Init ==
    /\ users = <<>>
    /\ workout_entries = <<>>
    /\ personal_records = <<>>
    /\ now = 0
    /\ issued = {}
    /\ resp = NoResponse
    /\ logged = <<>>
    /\ pending = <<>>
    /\ client = ClosedClient

Next ==
    \/ \E username \in Usernames, password \in Passwords : Signup(username, password)
    \/ \E username \in Usernames, password \in Passwords : Login(username, password)
    \/ \E authHeader \in AuthHeaders : VerifyToken(authHeader)

Spec == Init /\ [][Next]_vars

(***************************************************************************)
(* The workout tables and workoutModel.  db is the three tables.           *)
(* A nullable numeric cell holds Null or Num(n).                           *)
(***************************************************************************)
\* a DECIMAL column as node-postgres returns it: its decimal text
PgNumeric(cell) == IF cell.t = "null" THEN Null ELSE DecStr(cell.v)

\* a workout_entries row as the object node-postgres returns
PgEntry(row) ==
    [t |-> "object", id |-> Num(row.id), user_id |-> Num(row.user_id),
     date |-> DateObj(row.date), exercise_name |-> Str(row.exercise_name),
     sets |-> row.sets, reps |-> row.reps, weight |-> PgNumeric(row.weight),
     duration |-> row.duration, created_at |-> row.created_at]

\* a personal_records row as the object node-postgres returns
PgRecord(row) ==
    [t |-> "object", id |-> Num(row.id), user_id |-> Num(row.user_id),
     exercise_name |-> Str(row.exercise_name), record_type |-> row.record_type,
     value |-> PgNumeric(row.value), date |-> DateObj(row.date),
     workout_entry_id |-> row.workout_entry_id, created_at |-> row.created_at]

\* user_id INTEGER NOT NULL REFERENCES users(id)
UserIdOk(db, param) ==
    param.t = "number" /\ \E i \in 1..Len(db.users) : db.users[i].id = param.v

\* a number with a fractional part: n + 1/2
Frac(n) == [t |-> "number", v |-> n, half |-> TRUE]

\* a parameter a DATE column takes
PgDateOk(param) == "day" \in DOMAIN param

\* a parameter an INTEGER column takes
PgIntOk(param) == param.t = "null" \/ (param.t = "number" /\ "half" \notin DOMAIN param)

\* gives the error thrown ("" when none), the new table and the row returned
createWorkoutEntry(db, userId, entryData) ==
    LET user_id == PgParam(userId)
        date == PgParam(entryData.date)
        exercise_name == PgParam(entryData.exercise_name)
        tbl == db.workout_entries
        row == [id |-> Len(tbl) + 1, user_id |-> user_id.v, date |-> date.day,
                exercise_name |-> exercise_name.v, sets |-> PgParam(entryData.sets),
                reps |-> PgParam(entryData.reps), weight |-> PgParam(entryData.weight),
                duration |-> PgParam(entryData.duration), created_at |-> Len(tbl) + 1]
    IN  IF \/ ~UserIdOk(db, user_id) \/ date.t = "null" \/ exercise_name.t = "null"
           \/ ~PgDateOk(date) \/ ~PgIntOk(PgParam(entryData.sets))
           \/ ~PgIntOk(PgParam(entryData.reps)) \/ ~PgIntOk(PgParam(entryData.duration))
        THEN [error |-> "Failed to create workout entry.", tbl |-> tbl, entry |-> Null]
        ELSE [error |-> "", tbl |-> Append(tbl, row), entry |-> PgEntry(row)]

\* a before b in ORDER BY date DESC, created_at DESC
HistoryOrder(a, b) ==
    a.date > b.date \/ (a.date = b.date /\ a.created_at > b.created_at)

\* a before b in ascending order of date
DateAscending(a, b) == a.date.day < b.date.day

\* a stable sort: an element goes behind those before it in the order and behind
\* the earlier ones of those the order does not tell from it
StableSort(seq, order) ==
    LET Before(a, b) == IF order = "history" THEN HistoryOrder(a, b) ELSE DateAscending(a, b)
        rank(i) == 1 + Cardinality({ j \in 1..Len(seq) :
                        /\ j # i
                        /\ \/ Before(seq[j], seq[i])
                           \/ (~Before(seq[i], seq[j]) /\ j < i) })
    IN  [k \in 1..Len(seq) |-> seq[CHOOSE i \in 1..Len(seq) : rank(i) = k]]

getWorkoutHistory(db, userId) ==
    LET rows == SelectSeq(db.workout_entries, LAMBDA r : SqlEqInt(r.user_id, PgParam(userId)))
        ordered == StableSort(rows, "history")
    IN  [i \in 1..Len(ordered) |-> PgEntry(ordered[i])]

\* gives the error thrown ("" when none), the new table and the row returned
addPersonalRecord(db, userId, prData) ==
    LET user_id == PgParam(userId)
        tbl == db.personal_records
        workout_entry_id == PgParam(prData.workout_entry_id)
        row == [id |-> Len(tbl) + 1, user_id |-> user_id.v,
                exercise_name |-> prData.exercise_name.v, record_type |-> prData.record_type,
                value |-> prData.value, date |-> prData.date.day,
                workout_entry_id |-> workout_entry_id, created_at |-> Len(tbl) + 1]
        entryOk == workout_entry_id.t = "null"
                   \/ \E i \in 1..Len(db.workout_entries) :
                          db.workout_entries[i].id = workout_entry_id.v
    IN  IF ~UserIdOk(db, user_id) \/ ~entryOk
        THEN [error |-> "Failed to add personal record.", tbl |-> tbl, pr |-> Null]
        ELSE [error |-> "", tbl |-> Append(tbl, row), pr |-> PgRecord(row)]

\* the rows of a set that come first in ORDER BY value DESC, date DESC
BestRows(rows) ==
    { r \in rows : \A o \in rows :
        r.value.v > o.value.v \/ (r.value.v = o.value.v /\ r.date >= o.date) }

Rows(tbl) == { tbl[i] : i \in 1..Len(tbl) }

\* DISTINCT ON (exercise_name, record_type): the first row of every group; which
\* of several rows equal in value and date comes first is the store's choice
getCurrentPersonalRecords(db, userId) ==
    LET mine == { r \in Rows(db.personal_records) : SqlEqInt(r.user_id, PgParam(userId)) }
        groups == { <<r.exercise_name, r.record_type>> : r \in mine }
        first(g) == CHOOSE r \in BestRows({ o \in mine : <<o.exercise_name, o.record_type>> = g }) : TRUE
    IN  { PgRecord(first(g)) : g \in groups }

getLatestPersonalRecordForExercise(db, userId, exerciseName, recordType) ==
    LET rows == { r \in Rows(db.personal_records) :
                    /\ SqlEqInt(r.user_id, PgParam(userId))
                    /\ lower(r.exercise_name) = lower(exerciseName.v)
                    /\ r.record_type = recordType }
    IN  IF rows = {} THEN Null ELSE PgRecord(CHOOSE r \in BestRows(rows) : TRUE)

\* gives the record made (Null when none) and the personal_records table after it
checkAndRecordPRs(db, userId, workoutEntry) ==
    IF \/ ~Truthy(workoutEntry)
       \/ typeof(workoutEntry.weight) # "number"
       \/ workoutEntry.weight.v <= 0
    THEN [pr |-> Null, tbl |-> db.personal_records, queries |-> 0]
    ELSE LET recordType == "max_weight"
             currentPR == getLatestPersonalRecordForExercise(db, userId,
                              workoutEntry.exercise_name, recordType)
         IN  IF ~Truthy(currentPR) \/ workoutEntry.weight.v > ToNumber(currentPR.value)
             THEN LET newPRData == [exercise_name |-> workoutEntry.exercise_name,
                                    record_type |-> recordType,
                                    value |-> workoutEntry.weight,
                                    date |-> workoutEntry.date,
                                    workout_entry_id |-> workoutEntry.id]
                      a == addPersonalRecord(db, userId, newPRData)
                  IN  [pr |-> a.pr, tbl |-> a.tbl, queries |-> 2]
             ELSE [pr |-> Null, tbl |-> db.personal_records, queries |-> 1]

(***************************************************************************)
(* The workout routes, behind router.use(authenticateToken).               *)
(***************************************************************************)
DB == [users |-> users, workout_entries |-> workout_entries,
       personal_records |-> personal_records]

\* JavaScript's x < 0
Negative(x) == x.t = "number" /\ x.v < 0

\* v || null
OrNull(v) == IF Truthy(v) THEN v ELSE Null

\* the answer 500 carrying the message of the error caught
ServerErrorWithMessage == [status |-> 500, body |-> [text |-> "Failed to create workout entry."]]

ServerError == [status |-> 500, body |-> [text |-> "Server error"]]

\* POST /api/workouts: reached tells whether the request passed the basic validation
logWorkoutHandler(db, reqUser, body) ==
    LET userId == Prop(reqUser, "id")
        same == [workout_entries |-> db.workout_entries,
                 personal_records |-> db.personal_records]
    IN  IF \/ ~Truthy(body.date) \/ ~Truthy(body.exercise_name)
           \/ typeof(body.sets) # "number" \/ typeof(body.reps) # "number"
        THEN same @@ [status |-> 400, reached |-> FALSE, queries |-> 0,
                      body |-> [msg |-> "Please provide date, exercise name, sets, and reps."]]
        ELSE IF \/ Negative(body.weight) \/ Negative(body.sets) \/ Negative(body.reps)
                \/ (Truthy(body.duration) /\ Negative(body.duration))
        THEN same @@ [status |-> 400, reached |-> FALSE, queries |-> 0,
                      body |-> [msg |-> "Numeric workout values cannot be negative."]]
        ELSE LET entryData == [date |-> body.date, exercise_name |-> body.exercise_name,
                               sets |-> body.sets, reps |-> body.reps,
                               weight |-> OrNull(body.weight),
                               duration |-> OrNull(body.duration)]
                 c == createWorkoutEntry(db, userId, entryData)
                 p == checkAndRecordPRs([db EXCEPT !.workout_entries = c.tbl], userId, c.entry)
             IN  IF c.error # ""
                 THEN same @@ [status |-> ServerError.status, body |-> ServerError.body,
                               reached |-> TRUE, queries |-> 1]
                 ELSE [status |-> 201, reached |-> TRUE, queries |-> 1 + p.queries,
                       body |-> [message |-> "Workout logged successfully",
                                 workoutEntry |-> c.entry, personalRecordUpdate |-> p.pr],
                       workout_entries |-> c.tbl, personal_records |-> p.tbl]

\* the user an accepted token was issued for
Caller(authHeader) == authHeader.parts[2].payload.user.id.v

LogWorkout(authHeader, body) ==
    LET a == authenticateToken(authHeader, now)
        req == [authorization |-> authHeader, body |-> body]
    IN  IF ~a.next
        THEN /\ resp' = Response("log-workout", req, a.status, a.body, Undefined, Undefined,
                                 FALSE, 0)
             /\ UNCHANGED <<users, workout_entries, personal_records, now, issued, logged, pending, client>>
        ELSE LET r == logWorkoutHandler(DB, a.user, body)
             IN  /\ r.reached => Len(logged) < MaxLogged
                 /\ workout_entries' = r.workout_entries
                 /\ personal_records' = r.personal_records
                 /\ logged' = IF r.reached
                              THEN Append(logged, [uid |-> Caller(authHeader),
                                                   exercise_name |-> body.exercise_name.v,
                                                   weight |-> body.weight,
                                                   date |-> body.date.day])
                              ELSE logged
                 /\ resp' = Response("log-workout", req, r.status, r.body, a.user,
                                     Prop(a.user, "id"), TRUE, r.queries)
                 /\ UNCHANGED <<users, now, issued, pending, client>>

\* GET /api/workouts/history
GetHistory(authHeader) ==
    LET a == authenticateToken(authHeader, now)
        req == [authorization |-> authHeader]
    IN  /\ resp' = IF ~a.next
                   THEN Response("history", req, a.status, a.body, Undefined, Undefined,
                                 FALSE, 0)
                   ELSE Response("history", req, 200,
                                 getWorkoutHistory(DB, Prop(a.user, "id")), a.user,
                                 Prop(a.user, "id"), TRUE, 1)
        /\ UNCHANGED <<users, workout_entries, personal_records, now, issued, logged, pending, client>>

\* GET /api/workouts/prs
GetCurrentRecords(authHeader) ==
    LET a == authenticateToken(authHeader, now)
        req == [authorization |-> authHeader]
    IN  /\ resp' = IF ~a.next
                   THEN Response("prs", req, a.status, a.body, Undefined, Undefined, FALSE, 0)
                   ELSE Response("prs", req, 200,
                                 getCurrentPersonalRecords(DB, Prop(a.user, "id")), a.user,
                                 Prop(a.user, "id"), TRUE, 1)
        /\ UNCHANGED <<users, workout_entries, personal_records, now, issued, logged, pending, client>>

\* GET /api/workouts/progress/:exerciseName
progressHandler(db, reqUser, exerciseName) ==
    LET allWorkouts == getWorkoutHistory(db, Prop(reqUser, "id"))
        filtered == SelectSeq(allWorkouts, LAMBDA w :
                        /\ lower(w.exercise_name.v) = lower(exerciseName)
                        /\ ~IsNullish(w.weight))
        mapped == [i \in 1..Len(filtered) |->
                     [date |-> filtered[i].date, weight |-> filtered[i].weight,
                      reps |-> filtered[i].reps, sets |-> filtered[i].sets]]
        exerciseProgress == StableSort(mapped, "date")
    IN  IF Len(exerciseProgress) = 0
        THEN [status |-> 404, body |-> [msg |-> "No progress data found for exercise"]]
        ELSE [status |-> 200, body |-> exerciseProgress]

GetProgress(authHeader, exerciseName) ==
    LET a == authenticateToken(authHeader, now)
        req == [authorization |-> authHeader, exerciseName |-> exerciseName]
    IN  /\ resp' = IF ~a.next
                   THEN Response("progress", req, a.status, a.body, Undefined, Undefined,
                                 FALSE, 0)
                   ELSE LET r == progressHandler(DB, a.user, exerciseName)
                        IN  Response("progress", req, r.status, r.body, a.user,
                                     Prop(a.user, "id"), TRUE, 1)
        /\ UNCHANGED <<users, workout_entries, personal_records, now, issued, logged, pending, client>>

(***************************************************************************)
(* What the clients of the workout routes send.                            *)
(***************************************************************************)
ExerciseNames == { <<"B", "P">>, <<"b", "p">> }

Weights == {Undefined} \cup { Num(n) : n \in 0..MaxWeight }

\* a user id written into the body, which no route reads
SuppliedIds == {Undefined, Num(1)}

LogBodies ==
    { [date |-> DateStr(d), exercise_name |-> Str(e), sets |-> Num(3), reps |-> Num(5),
       weight |-> w, duration |-> Undefined, user_id |-> u] :
        d \in 1..MaxDate, e \in ExerciseNames, w \in Weights, u \in SuppliedIds }
    \cup { [date |-> Undefined, exercise_name |-> Str(<<"B", "P">>), sets |-> Num(3),
            reps |-> Num(5), weight |-> Num(1), duration |-> Undefined, user_id |-> Undefined],
           [date |-> DateStr(1), exercise_name |-> Str(<<"B", "P">>), sets |-> Num(3),
            reps |-> Num(5), weight |-> Num(-1), duration |-> Undefined,
            user_id |-> Undefined] }

\* headers that carry a token the server issued and that has not expired
GoodHeaders == { Bearer(tk) : tk \in { i \in issued : now < i.payload.exp } }

\* headers that carry no token, or one that is made up, malformed or expired
BadHeaders ==
    {Undefined, BearerOnly}
    \cup { Bearer(tk) : tk \in ForgedTokens \cup {Malformed}
                              \cup { i \in issued : now >= i.payload.exp } }

(***************************************************************************)
(* Two registered users, each holding a token.                             *)
(***************************************************************************)
Alice ==
    [id |-> 1, username |-> <<"a", "b", "c">>,
     password_hash |-> bcryptHash(<<"s", "e", "c", "r", "e", "t">>, SALT_ROUNDS)]

Bob ==
    [id |-> 2, username |-> <<"&", "l", "t", ";">>,
     password_hash |-> bcryptHash(<<"h", "u", "n", "t", "e", "r", "2">>, SALT_ROUNDS)]

InitRegistered ==
    /\ users = <<Alice, Bob>>
    /\ workout_entries = <<>>
    /\ personal_records = <<>>
    /\ now = 0
    /\ issued = { generateToken(UserObj(Alice), 0), generateToken(UserObj(Bob), 0) }
    /\ resp = NoResponse
    /\ logged = <<>>
    /\ pending = <<>>
    /\ client = ClosedClient

(***************************************************************************)
(* The workout routes called with accepted tokens.                         *)
(***************************************************************************)
NextWorkout ==
    \/ \E h \in GoodHeaders, body \in LogBodies : LogWorkout(h, body)
    \/ \E h \in GoodHeaders : GetHistory(h)
    \/ \E h \in GoodHeaders : GetCurrentRecords(h)
    \/ \E h \in GoodHeaders, e \in ExerciseNames : GetProgress(h, e)

SpecWorkout == InitRegistered /\ [][NextWorkout]_vars

(***************************************************************************)
(* The workout routes called without an acceptable token, as time passes.  *)
(***************************************************************************)
NextGate ==
    \/ \E h \in BadHeaders, body \in LogBodies : LogWorkout(h, body)
    \/ \E h \in BadHeaders : GetHistory(h)
    \/ \E h \in BadHeaders : GetCurrentRecords(h)
    \/ \E h \in BadHeaders, e \in ExerciseNames : GetProgress(h, e)
    \/ Tick

SpecGate == InitRegistered /\ [][NextGate]_vars

(***************************************************************************)
(* Properties of the authentication routes (checked under Spec).           *)
(***************************************************************************)
\* the token a header carries
TokenOf(authHeader) == authHeader.parts[2]

\* no token in the header
NoToken(authHeader) == ~Truthy(authHeader) \/ Len(authHeader.parts) < 2

\* the header carries a token signed by the server
ServerSigned(authHeader) ==
    /\ ~NoToken(authHeader)
    /\ "payload" \in DOMAIN TokenOf(authHeader)
    /\ TokenOf(authHeader).sig = [key |-> "jwtSecret", of |-> TokenOf(authHeader).payload]

\* the users row with this id
RowOf(id) == CHOOSE r \in Rows(users) : r.id = id

\* C5: when the middleware accepts a token issued for user u, the identity the
\* handler behind it uses (req.user.id, req.user.username) is u's id and username.
C5_HandlerSeesTokenUser ==
    (resp.op = "verify-token" /\ resp.ran) =>
        /\ resp.userId = TokenOf(resp.req).payload.user.id
        /\ Prop(resp.user, "username") = TokenOf(resp.req).payload.user.username

\* C8: a signup whose username has fewer than 3 characters or whose password has
\* fewer than 6 is answered 400 and leaves the users table as it was.
C8_ShortSignupRejected ==
    [][ (resp'.op = "signup"
         /\ (Len(resp'.req.username) < 3 \/ Len(resp'.req.password) < 6))
        => (resp'.status = 400 /\ users' = users) ]_vars

\* the answer 400 'User already exists', without a token
IsUserExists(r) ==
    /\ r.status = 400
    /\ "errors" \in DOMAIN r.body
    /\ r.body.errors = <<[param |-> "username", msg |-> "User already exists"]>>

SignupWellFormed(req) ==
    /\ Len(req.username) > 0
    /\ Len(escape(trim(req.username))) >= 3
    /\ Len(req.password) >= 6

LoggedInAs(r, id) ==
    /\ r.status = 200
    /\ r.body.token.payload.user.id = Num(id)
    /\ r.body.user.id = Num(id)
    /\ r.body.token.sig = [key |-> "jwtSecret", of |-> r.body.token.payload]

WorkoutOps == {"log-workout", "history", "prs", "progress"}

StoreUnchanged ==
    UNCHANGED <<users, workout_entries, personal_records, client>>

\* C6: token verification runs before every workout operation: a request without
\* a token is answered 401, one with a token that is not the server's or has
\* expired is answered 403, and in both cases no handler runs, no query is issued
\* and the store stays as it was.
C6_TokenGate ==
    [][ (now' = now /\ resp'.op \in WorkoutOps) =>
        LET h == resp'.req.authorization
        IN  /\ NoToken(h) =>
                 (resp'.status = 401 /\ ~resp'.ran /\ resp'.queries = 0 /\ StoreUnchanged)
            /\ (~NoToken(h) /\ (~ServerSigned(h) \/ now >= TokenOf(h).payload.exp)) =>
                 (resp'.status = 403 /\ ~resp'.ran /\ resp'.queries = 0 /\ StoreUnchanged)
      ]_vars

\* a LogWorkout request with a token of the server that has expired was refused
C6_Witness ==
    /\ resp.op = "log-workout" /\ resp.status = 403 /\ ~resp.ran
    /\ ServerSigned(resp.req.authorization)
    /\ now >= TokenOf(resp.req.authorization).payload.exp
    /\ Truthy(resp.req.body.weight)

(***************************************************************************)
(* Properties of the workout routes (checked under SpecWorkout).  logged   *)
(* is the history of the LogWorkout calls the server has answered after    *)
(* accepting their token and their fields.                                 *)
(***************************************************************************)
Max(S) == CHOOSE x \in S : \A y \in S : x >= y

\* the answered calls of user u for the exercise spelled e
CallsOf(u, e) ==
    { logged[i] : i \in { j \in 1..Len(logged) :
                            logged[j].uid = u /\ logged[j].exercise_name = e } }

\* those of them with a positive weight
WeightedCallsOf(u, e) ==
    { c \in CallsOf(u, e) : c.weight.t = "number" /\ c.weight.v > 0 }

\* user u has used no other spelling of the exercise e
OneSpelling(u, e) ==
    \A i \in 1..Len(logged) :
        (logged[i].uid = u /\ lower(logged[i].exercise_name) = lower(e))
        => logged[i].exercise_name = e

MaxWeightOf(u, e) == Max({ c.weight.v : c \in WeightedCallsOf(u, e) })

\* C1: after any sequence of completed (answered) LogWorkout calls of one user for
\* one exercise, at least one with a positive weight, GetCurrentRecords returns a
\* 'max_weight' record for the exercise whose value is the greatest weight logged.
C1_MaxWeightRecord ==
    resp.op = "prs" =>
        \A e \in ExerciseNames :
            LET u == Caller(resp.req.authorization)
            IN  (WeightedCallsOf(u, e) # {} /\ OneSpelling(u, e)) =>
                    /\ resp.status = 200
                    /\ \E row \in resp.body :
                          /\ row.record_type = "max_weight"
                          /\ row.exercise_name = Str(e)
                          /\ ToNumber(row.value) = MaxWeightOf(u, e)

\* C2: the date of that 'max_weight' record is the date of the latest entry whose
\* weight is the greatest weight logged.
C2_RecordDateIsLatestMax ==
    resp.op = "prs" =>
        \A e \in ExerciseNames :
            LET u == Caller(resp.req.authorization)
                latest == Max({ c.date : c \in { w \in WeightedCallsOf(u, e) :
                                                   w.weight.v = MaxWeightOf(u, e) } })
            IN  (WeightedCallsOf(u, e) # {} /\ OneSpelling(u, e)) =>
                    \E row \in resp.body :
                        /\ row.record_type = "max_weight"
                        /\ row.exercise_name = Str(e)
                        /\ row.date = DateObj(latest)

\* the 'max_weight' rows user u has for the exercise e, in any spelling
RecordsOf(u, e) ==
    { r \in Rows(personal_records) :
        r.user_id = u /\ lower(r.exercise_name) = lower(e) /\ r.record_type = "max_weight" }

\* C3: when LogWorkout completes for an entry whose weight is positive and greater
\* than every 'max_weight' record of the caller for the exercise (or there is none),
\* the response carries a personalRecordUpdate and a personal_records row for the
\* entry has been inserted.
C3_NewBestRecorded ==
    [][ (resp'.op = "log-workout" /\ logged' # logged) =>
        LET c == logged'[Len(logged')]
        IN  (/\ c.weight.t = "number" /\ c.weight.v > 0
             /\ \A r \in RecordsOf(c.uid, c.exercise_name) : c.weight.v > r.value.v)
            => /\ resp'.status = 201
               /\ Truthy(resp'.body.personalRecordUpdate)
               /\ Len(personal_records') = Len(personal_records) + 1
               /\ personal_records'[Len(personal_records')].user_id = c.uid
               /\ personal_records'[Len(personal_records')].value = c.weight
      ]_vars

\* C7: whatever user id the client writes into the request, a workout route called
\* with the token of user A returns rows of A only, and LogWorkout called with it
\* creates a workout entry (and any personal record) owned by A.
C7_Isolation ==
    [][ (resp'.op \in WorkoutOps /\ resp'.ran) =>
        LET a == Caller(resp'.req.authorization)
        IN  /\ resp'.op = "history" =>
                 \A i \in DOMAIN resp'.body : resp'.body[i].user_id = Num(a)
            /\ resp'.op = "prs" => \A row \in resp'.body : row.user_id = Num(a)
            /\ (resp'.op = "log-workout" /\ logged' # logged) =>
                 /\ Len(workout_entries') = Len(workout_entries) + 1
                 /\ workout_entries'[Len(workout_entries')].user_id = a
                 /\ \A i \in (Len(personal_records) + 1)..Len(personal_records') :
                        personal_records'[i].user_id = a
      ]_vars

(***************************************************************************)
(* Login failures (checked under Spec).                                    *)
(***************************************************************************)
\* the status and body POST /api/auth/login sends for a request
LoginAnswer(req) ==
    LET v == loginValidationRules(req)
        r == loginHandler(users, v.body, now)
    IN  IF v.errors # <<>>
        THEN validate(v.errors)
        ELSE [status |-> r.status, body |-> r.body]

\* the request passes the login validation and names no registered user
UnknownUser(req) ==
    /\ loginValidationRules(req).errors = <<>>
    /\ \A r \in Rows(users) : r.username # escape(trim(req.username))

\* the request passes the login validation and names a registered user, with a
\* password that is not that user's
WrongPassword(req) ==
    /\ loginValidationRules(req).errors = <<>>
    /\ \E r \in Rows(users) :
          r.username = escape(trim(req.username)) /\ r.password_hash.of # req.password

LoginRequests == [username : Usernames, password : Passwords]

HeldHeaders == { Bearer(tk) : tk \in issued }

NextClock ==
    \/ \E username \in Usernames, password \in Passwords : Login(username, password)
    \/ \E authHeader \in HeldHeaders : VerifyToken(authHeader)
    \/ Tick

SpecClock == InitRegistered /\ [][NextClock]_vars

\* C18: a token the server issued is accepted by the middleware at any time less
\* than 5 hours after it was issued, and is answered 403 at any time more than
\* 5 hours after it was issued.
C18_TokenLifetime ==
    [][ (now' = now /\ resp'.op = "verify-token" /\ ServerSigned(resp'.req)) =>
        LET iat == TokenOf(resp'.req).payload.iat
        IN  /\ now < iat + 5 => resp'.ran
            /\ now > iat + 5 => (resp'.status = 403 /\ ~resp'.ran)
      ]_vars

\* a token the server issued was refused more than 5 hours after its issue
C18_Witness ==
    /\ resp.op = "verify-token" /\ resp.status = 403
    /\ ServerSigned(resp.req)
    /\ now > TokenOf(resp.req).payload.iat + 5

(***************************************************************************)
(* Workouts without a weight (checked under SpecWorkout).                  *)
(***************************************************************************)
\* C20: LogWorkout with the weight left out or 0 stores the workout entry, leaves
\* personal_records as it was and answers with personalRecordUpdate null.
C20_NoWeightNoRecord ==
    [][ (/\ resp'.op = "log-workout" /\ logged' # logged
         /\ resp'.req.body.weight \in {Undefined, Num(0)}) =>
        /\ Len(workout_entries') = Len(workout_entries) + 1
        /\ personal_records' = personal_records
        /\ resp'.status = 201
        /\ ~Truthy(resp'.body.personalRecordUpdate)
      ]_vars

(***************************************************************************)
(* POST /api/workouts one awaited query at a time.  A request in flight    *)
(* is its header and body, req.user, the query it awaits (stage) and the   *)
(* entry createWorkoutEntry returned to it.                                *)
(***************************************************************************)
\* bodies with one field that is not what the interface asks for
MalformedBodies ==
    LET good == [date |-> DateStr(1), exercise_name |-> Str(<<"B", "P">>), sets |-> Num(3),
                 reps |-> Num(5), weight |-> Num(1), duration |-> Undefined,
                 user_id |-> Undefined]
    IN  { [good EXCEPT !.date = Str(<<"x">>)], [good EXCEPT !.exercise_name = Str(<<>>)],
          [good EXCEPT !.sets = Frac(1)], [good EXCEPT !.reps = Frac(1)],
          [good EXCEPT !.sets = Num(-1)], [good EXCEPT !.reps = Str(<<"5">>)],
          [good EXCEPT !.weight = Num(-1)], [good EXCEPT !.duration = Num(-1)] }

StepBodies ==
    MalformedBodies
    \cup { b \in LogBodies : b.date = DateStr(1) /\ b.user_id = Undefined }

\* the answer 201 of POST /api/workouts
Logged(entry, pr) ==
    [status |-> 201, body |-> [message |-> "Workout logged successfully",
                               workoutEntry |-> entry, personalRecordUpdate |-> pr]]

\* the handler from the query a request awaits to its next await or its answer;
\* ok tells whether the store answers the query
logWorkoutStep(db, p, ok) ==
    LET userId == Prop(p.user, "id")
        same == [workout_entries |-> db.workout_entries,
                 personal_records |-> db.personal_records]
        answer(a) == [done |-> TRUE, status |-> a.status, body |-> a.body,
                      stage |-> "done", entry |-> p.entry]
        await(stage, entry) == [done |-> FALSE, status |-> 0, body |-> Undefined,
                                stage |-> stage, entry |-> entry]
    IN  CASE p.stage = "create" ->
               LET entryData == [date |-> p.body.date, exercise_name |-> p.body.exercise_name,
                                 sets |-> p.body.sets, reps |-> p.body.reps,
                                 weight |-> OrNull(p.body.weight),
                                 duration |-> OrNull(p.body.duration)]
                   c == createWorkoutEntry(db, userId, entryData)
                   stored == [same EXCEPT !.workout_entries = c.tbl]
               IN  IF ~ok \/ c.error # ""
                   THEN same @@ answer(ServerError)
                   ELSE IF \/ ~Truthy(c.entry) \/ typeof(c.entry.weight) # "number"
                           \/ c.entry.weight.v <= 0
                   THEN stored @@ answer(Logged(c.entry, Null))
                   ELSE stored @@ await("latest", c.entry)
          [] p.stage = "latest" ->
               LET currentPR == getLatestPersonalRecordForExercise(db, userId,
                                    p.entry.exercise_name, "max_weight")
               IN  IF ~ok
                   THEN same @@ answer(Logged(p.entry, Null))
                   ELSE IF ~Truthy(currentPR) \/ p.entry.weight.v > ToNumber(currentPR.value)
                   THEN same @@ await("add", p.entry)
                   ELSE same @@ answer(Logged(p.entry, Null))
          [] p.stage = "add" ->
               LET newPRData == [exercise_name |-> p.entry.exercise_name,
                                 record_type |-> "max_weight", value |-> p.entry.weight,
                                 date |-> p.entry.date, workout_entry_id |-> p.entry.id]
                   a == addPersonalRecord(db, userId, newPRData)
               IN  IF ~ok \/ a.error # ""
                   THEN same @@ answer(Logged(p.entry, Null))
                   ELSE [same EXCEPT !.personal_records = a.tbl]
                        @@ answer(Logged(p.entry, a.pr))

\* the request arrives: the middleware and the validation run, and the handler
\* sends its first query
BeginLogWorkout(authHeader, body) ==
    LET a == authenticateToken(authHeader, now)
        req == [authorization |-> authHeader, body |-> body]
        r == logWorkoutHandler(DB, a.user, body)
    IN  IF ~a.next
        THEN /\ resp' = Response("log-workout", req, a.status, a.body, Undefined, Undefined,
                                 FALSE, 0)
             /\ UNCHANGED <<users, workout_entries, personal_records, now, issued, logged,
                            pending, client>>
        ELSE IF ~r.reached
        THEN /\ resp' = Response("log-workout", req, r.status, r.body, a.user,
                                 Prop(a.user, "id"), TRUE, 0)
             /\ UNCHANGED <<users, workout_entries, personal_records, now, issued, logged,
                            pending, client>>
        ELSE /\ Len(pending) < MaxPending
             /\ pending' = Append(pending, [authorization |-> authHeader, body |-> body,
                                            user |-> a.user, stage |-> "create",
                                            entry |-> Null, queries |-> 0])
             /\ UNCHANGED <<users, workout_entries, personal_records, now, issued, resp,
                            logged, client>>

\* the store answers (ok) or fails the query the i-th request in flight awaits
StepLogWorkout(i, ok) ==
    LET p == pending[i]
        r == logWorkoutStep(DB, p, ok)
        others == SubSeq(pending, 1, i - 1) \o SubSeq(pending, i + 1, Len(pending))
    IN  /\ workout_entries' = r.workout_entries
        /\ personal_records' = r.personal_records
        /\ IF r.done
           THEN /\ resp' = Response("log-workout",
                                    [authorization |-> p.authorization, body |-> p.body],
                                    r.status, r.body, p.user, Prop(p.user, "id"), TRUE,
                                    p.queries + 1)
                /\ pending' = others
           ELSE /\ resp' = resp
                /\ pending' = [pending EXCEPT ![i] = [@ EXCEPT !.stage = r.stage,
                                                               !.entry = r.entry,
                                                               !.queries = @ + 1]]
        /\ UNCHANGED <<users, now, issued, logged, client>>

NextSteps ==
    \/ \E h \in GoodHeaders, body \in StepBodies : BeginLogWorkout(h, body)
    \/ \E i \in 1..Len(pending), ok \in BOOLEAN : StepLogWorkout(i, ok)

SpecSteps == InitRegistered /\ [][NextSteps]_vars

(***************************************************************************)
(* Two requests of one user for one exercise in flight together, served    *)
(* in lockstep: both send a query before either sends its next one.        *)
(***************************************************************************)
\* bodies with a date and a positive weight
RaceBodies ==
    { b \in LogBodies : /\ b.user_id = Undefined /\ PgDateOk(b.date)
                        /\ b.weight.t = "number" /\ b.weight.v > 0 }

\* a request that has passed the middleware and the validation
InFlight(authHeader, body) ==
    [authorization |-> authHeader, body |-> body, user |-> authenticateToken(authHeader, 0).user,
     stage |-> "create", entry |-> Null, queries |-> 0]

\* two bodies for one exercise, the second with a weight no greater than the first
RacePairs ==
    { pair \in RaceBodies \X RaceBodies :
        /\ lower(pair[2].exercise_name.v) = lower(pair[1].exercise_name.v)
        /\ pair[2].weight.v <= pair[1].weight.v }

InitRace ==
    /\ users = <<Alice, Bob>>
    /\ workout_entries = <<>>
    /\ personal_records = <<>>
    /\ now = 0
    /\ issued = { generateToken(UserObj(Alice), 0), generateToken(UserObj(Bob), 0) }
    /\ resp = NoResponse
    /\ logged = <<>>
    /\ pending \in { <<InFlight(Bearer(tk), pair[1]), InFlight(Bearer(tk), pair[2])>> :
                        tk \in { generateToken(UserObj(Alice), 0),
                                 generateToken(UserObj(Bob), 0) },
                        pair \in RacePairs }
    /\ client = ClosedClient

StageRank(stage) == CASE stage = "create" -> 1 [] stage = "latest" -> 2 [] OTHER -> 3

\* the i-th request is the one lockstep serves next
Turn(i) ==
    \A j \in 1..Len(pending) :
        j # i => \/ StageRank(pending[i].stage) < StageRank(pending[j].stage)
                 \/ (StageRank(pending[i].stage) = StageRank(pending[j].stage) /\ i < j)

NextLockstep == \E i \in 1..Len(pending) : Turn(i) /\ StepLogWorkout(i, TRUE)

SpecLockstep == InitRace /\ [][NextLockstep]_vars

\* C12: when two LogWorkout requests of one user for one exercise overlap, the
\* second with a weight no greater than the first, the interleaving in which both
\* read the prior best before either inserts ends, once both are answered, with
\* both having inserted a personal record: two rows of that user and exercise.
C12_RaceDuplicates ==
    pending = <<>> =>
        /\ Len(personal_records) = 2
        /\ personal_records[1].user_id = personal_records[2].user_id
        /\ lower(personal_records[1].exercise_name) = lower(personal_records[2].exercise_name)

(***************************************************************************)
(* Properties of POST /api/workouts query by query (checked under          *)
(* SpecSteps).                                                             *)
(***************************************************************************)
\* no request in flight ever awaits a query on personal_records
OnlyCreateAwaited == \A i \in 1..Len(pending) : pending[i].stage = "create"

\* a non-negative integer
NonNegInt(x) == x.t = "number" /\ "half" \notin DOMAIN x /\ x.v >= 0

\* the body has a date that is no calendar date, an empty exercise name, sets or
\* reps that are no non-negative integers, or a negative weight or duration
IsMalformed(body) ==
    \/ ~PgDateOk(body.date)
    \/ ~Truthy(body.exercise_name)
    \/ ~NonNegInt(body.sets) \/ ~NonNegInt(body.reps)
    \/ Negative(body.weight) \/ Negative(body.duration)

\* C16: LogWorkout with such a body is answered 400 and stores neither a workout
\* entry nor a personal record.
C16_MalformedRejected ==
    [][ (resp' # resp /\ resp'.op = "log-workout" /\ IsMalformed(resp'.req.body)) =>
        /\ resp'.status = 400
        /\ workout_entries' = workout_entries
        /\ personal_records' = personal_records
      ]_vars

MaxRows == 2

\* the entryData the POST route builds from a well-formed body
StoreEntries ==
    { [date |-> DateStr(d), exercise_name |-> Str(e), sets |-> Num(3), reps |-> Num(5),
       weight |-> w, duration |-> Null] :
        d \in 1..MaxDate, e \in ExerciseNames, w \in {Null, Num(1)} }

\* the newPRData checkAndRecordPRs builds
StoreRecords ==
    { [exercise_name |-> Str(e), record_type |-> "max_weight", value |-> Num(v),
       date |-> DateObj(d), workout_entry_id |-> Undefined] :
        e \in ExerciseNames, v \in 1..MaxWeight, d \in 1..MaxDate }

StoredRows == Len(workout_entries) + Len(personal_records)

ModelCreateWorkoutEntry(uid, entryData) ==
    LET c == createWorkoutEntry(DB, Num(uid), entryData)
    IN  /\ StoredRows < MaxRows
        /\ c.error = ""
        /\ workout_entries' = c.tbl
        /\ UNCHANGED <<users, personal_records, now, issued, resp, logged, pending, client>>

ModelAddPersonalRecord(uid, prData) ==
    LET a == addPersonalRecord(DB, Num(uid), prData)
    IN  /\ StoredRows < MaxRows
        /\ a.error = ""
        /\ personal_records' = a.tbl
        /\ UNCHANGED <<users, workout_entries, now, issued, resp, logged, pending, client>>

NextStore ==
    \/ \E uid \in 1..Len(users), e \in StoreEntries : ModelCreateWorkoutEntry(uid, e)
    \/ \E uid \in 1..Len(users), r \in StoreRecords : ModelAddPersonalRecord(uid, r)
    \/ \E h \in GoodHeaders : GetHistory(h)
    \/ \E h \in GoodHeaders : GetCurrentRecords(h)
    \/ \E h \in GoodHeaders, e \in ExerciseNames : GetProgress(h, e)

SpecStore == InitRegistered /\ [][NextStore]_vars

\* the rows of a table that belong to a user
RowsOf(tbl, uid) == { r \in Rows(tbl) : r.user_id = uid }

QueriesGivenTheId ==
    \A uid \in 1..Len(users) :
        LET h == getWorkoutHistory(DB, Num(uid))
            c == getCurrentPersonalRecords(DB, Num(uid))
        IN  /\ { h[i].id.v : i \in 1..Len(h) } = { r.id : r \in RowsOf(workout_entries, uid) }
            /\ \A i, j \in 1..Len(h) : i < j =>
                  \/ h[i].date.day > h[j].date.day
                  \/ (h[i].date.day = h[j].date.day /\ h[i].created_at > h[j].created_at)
            /\ { <<o.exercise_name.v, o.record_type>> : o \in c }
                  = { <<r.exercise_name, r.record_type>> : r \in RowsOf(personal_records, uid) }
            /\ Cardinality(c)
                  = Cardinality({ <<r.exercise_name, r.record_type>> : r \in RowsOf(personal_records, uid) })

NextRace == \E i \in 1..Len(pending) : StepLogWorkout(i, TRUE)

SpecRace == InitRace /\ [][NextRace]_vars

\* no personal record is ever stored by the routes
NoRecordStored == personal_records = <<>>

ValidSignups ==
    { [req |-> r, body |-> signupValidationRules(r).body] :
        r \in { q \in [username : Usernames, password : Passwords] :
                    signupValidationRules(q).errors = <<>> } }

\* a signup request awaiting findByUsername
SignupInFlight(s) == [req |-> s.req, body |-> s.body, stage |-> "find", queries |-> 0]

InitSignupRace ==
    /\ users = <<>>
    /\ workout_entries = <<>>
    /\ personal_records = <<>>
    /\ now = 0
    /\ issued = {}
    /\ resp = NoResponse
    /\ logged = <<>>
    /\ pending \in { <<SignupInFlight(s1), SignupInFlight(s2)>> :
                        s1 \in ValidSignups, s2 \in ValidSignups }
    /\ client = ClosedClient

\* the handler from the query a request awaits to its next await or its answer
signupStep(tbl, p, time) ==
    LET answer(a) == [done |-> TRUE, status |-> a.status, body |-> a.body, tbl |-> tbl,
                      token |-> Null]
    IN  IF p.stage = "find"
        THEN IF Truthy(findByUsername(tbl, p.body.username))
             THEN answer(UserExists)
             ELSE [done |-> FALSE, status |-> 0, body |-> Undefined, tbl |-> tbl,
                   token |-> Null]
        ELSE LET c == createUser(tbl, p.body.username, p.body.password)
                 token == generateToken(c.user, time)
             IN  IF c.error = "Username already exists."
                 THEN answer(UserExists)
                 ELSE IF c.error # ""
                 THEN answer([status |-> 500, body |-> [msg |-> "Server error during signup."]])
                 ELSE [done |-> TRUE, status |-> 201,
                       body |-> [token |-> token,
                                 user |-> [id |-> c.user.id, username |-> c.user.username]],
                       tbl |-> c.tbl, token |-> token]

\* the store answers the query the i-th signup in flight awaits
StepSignup(i) ==
    LET p == pending[i]
        r == signupStep(users, p, now)
        others == SubSeq(pending, 1, i - 1) \o SubSeq(pending, i + 1, Len(pending))
    IN  /\ users' = r.tbl
        /\ issued' \in (IF r.token = Null THEN {issued} ELSE Wallets(issued, r.token))
        /\ IF r.done
           THEN /\ resp' = Response("signup", p.req, r.status, r.body, Undefined, Undefined,
                                    TRUE, p.queries + 1)
                /\ pending' = others
           ELSE /\ resp' = resp
                /\ pending' = [pending EXCEPT ![i] = [@ EXCEPT !.stage = "create",
                                                               !.queries = @ + 1]]
        /\ UNCHANGED <<workout_entries, personal_records, now, logged, client>>

NextSignupRace == \E i \in 1..Len(pending) : StepSignup(i)

SpecSignupRace == InitSignupRace /\ [][NextSignupRace]_vars

\* no two rows of the users table have the same username
UniqueUsernames ==
    \A i, j \in 1..Len(users) : users[i].username = users[j].username => i = j

\* C24: of two overlapping signups with one valid username exactly one creates a
\* user and is answered with a token, the other is answered 400 'User already
\* exists'; and at no time do two rows of users have the same username.
C24_SignupRace ==
    /\ [] UniqueUsernames
    /\ [][ (/\ Len(pending) = 1 /\ pending' = <<>> /\ resp.op = "signup"
            /\ signupValidationRules(resp.req).body.username = pending[1].body.username) =>
              /\ Len(users') = 1
              /\ \E won, lost \in {resp, resp'} :
                    /\ won # lost
                    /\ won.status = 201 /\ won.body.token \in issued'
                    /\ won.body.user.id = Num(users'[1].id)
                    /\ lost.status = UserExists.status /\ lost.body = UserExists.body ]_vars

\* both requests found the name free, and the second insert was refused
C24_Witness ==
    /\ pending = <<>> /\ Len(users) = 1
    /\ resp.op = "signup" /\ resp.status = 400 /\ resp.queries = 2

(***************************************************************************)
(* The browser client.  client holds localStorage (lsToken, lsUser), the   *)
(* React state of AuthProvider (token, user, isLoadingAuth, authError),    *)
(* the Authorization default header of apiClient, the auth call in flight  *)
(* (call), and WorkoutForm (workout).  A call is sent, is answered by the  *)
(* server or fails on the way, and then settles in the client.             *)
(***************************************************************************)
\* JSON.stringify of an object
JsonStringify(v) == [t |-> "string", json |-> v]

\* whether JSON.parse throws on what localStorage.getItem gave
JsonParseThrows(s) == s.t = "string" /\ "json" \notin DOMAIN s

\* JSON.parse of what localStorage.getItem gave (null for an absent item)
JsonParse(s) == IF s.t = "null" THEN Null ELSE s.json

\* the text shown for an error
Text(m) == [t |-> "string", text |-> m]

NoCall == [op |-> "none", stage |-> "none"]

\* WorkoutForm before a submit
IdleForm == [stage |-> "idle", formData |-> Null, request |-> Null, answer |-> Null,
             error |-> Null, successMessage |-> Null]

\* apiService.setAuthHeader
setAuthHeader(c, token) ==
    [c EXCEPT !.header = IF Truthy(token) THEN Bearer(token) ELSE Undefined]

setAuthData(c, userData, userToken) ==
    [setAuthHeader(c, userToken) EXCEPT !.lsToken = userToken,
                                        !.lsUser = JsonStringify(userData),
                                        !.token = userToken, !.user = userData,
                                        !.authError = Null]

\* a logout that leaves the Authorization default header in place
performLogoutKeepsHeader(c) ==
    [c EXCEPT !.lsToken = Null, !.lsUser = Null, !.token = Null, !.user = Null,
              !.authError = Null]

performLogout(c) ==
    [setAuthHeader(c, Null) EXCEPT !.lsToken = Null, !.lsUser = Null, !.token = Null,
                                   !.user = Null, !.authError = Null]

isAuthenticated(c) == Truthy(c.token) /\ Truthy(c.user)

\* an HTTP request of apiClient: the default header goes with it
Request(c, url, data) == [url |-> url, body |-> data, authorization |-> c.header]

\* AuthProvider mounts over the stored items: useState, then initialAuthCheck up
\* to its await, or to its end when no token is stored
Mounted(lsToken, lsUser) ==
    LET c == [open |-> TRUE, lsToken |-> lsToken,
              lsUser |-> IF JsonParseThrows(lsUser) THEN Null ELSE lsUser,
              token |-> lsToken,
              user |-> IF JsonParseThrows(lsUser) THEN Null ELSE JsonParse(lsUser),
              header |-> Undefined, isLoadingAuth |-> TRUE, authError |-> Null,
              call |-> NoCall, workout |-> IdleForm]
        h == setAuthHeader(c, lsToken)
    IN  IF Truthy(lsToken)
        THEN [h EXCEPT !.call = [op |-> "verify-token", stage |-> "sent",
                                 request |-> Request(h, "/auth/verify-token", Undefined),
                                 storedToken |-> lsToken, answer |-> Null]]
        ELSE [performLogout(c) EXCEPT !.isLoadingAuth = FALSE]

\* what an earlier visit may have left in localStorage
StoredBefore ==
    LET tk == generateToken(UserObj(Alice), 0)
        u == JsonStringify([t |-> "object", id |-> Num(1), username |-> Str(Alice.username)])
    IN  { <<Null, Null>>, <<tk, u>>, <<tk, Null>>, <<tk, Str(<<"x">>)>>, <<Malformed, u>>,
          <<Null, u>> }

\* what the user types into AuthForm
Credentials ==
    { [username |-> <<"a", "b", "c">>, password |-> <<"s", "e", "c", "r", "e", "t">>],
      [username |-> <<"a", "b", "c">>, password |-> <<"h", "u", "n", "t", "e", "r", "2">>],
      [username |-> <<"<">>, password |-> <<"h", "u", "n", "t", "e", "r", "2">>] }

InitClient ==
    /\ users = <<Alice>>
    /\ workout_entries = <<>>
    /\ personal_records = <<>>
    /\ now = 0
    /\ issued = { generateToken(UserObj(Alice), 0) }
    /\ resp = NoResponse
    /\ logged = <<>>
    /\ pending = <<>>
    /\ client \in { Mounted(st[1], st[2]) : st \in StoredBefore }

\* the page is loaded again: the calls in flight are dropped with the old page
Reload ==
    /\ client' = Mounted(client.lsToken, client.lsUser)
    /\ UNCHANGED <<users, workout_entries, personal_records, now, issued, resp, logged,
                   pending>>

\* Navbar shows Logout to an authenticated user
handleLogout ==
    /\ isAuthenticated(client)
    /\ client' = performLogout(client)
    /\ UNCHANGED <<users, workout_entries, personal_records, now, issued, resp, logged,
                   pending>>

\* AuthPage shows AuthForm when no auth operation is loading and nobody is
\* authenticated; handleAuthOperation runs up to its await
handleAuthOperation(op, credentials) ==
    /\ ~client.isLoadingAuth /\ ~isAuthenticated(client)
    /\ client' = [client EXCEPT !.isLoadingAuth = TRUE, !.authError = Null,
                                !.call = [op |-> op, stage |-> "sent",
                                          request |-> Request(client, op, credentials),
                                          storedToken |-> Null, answer |-> Null]]
    /\ UNCHANGED <<users, workout_entries, personal_records, now, issued, resp, logged,
                   pending>>

\* the call in flight holds the answer a
Answered(c, a) == [c EXCEPT !.call.stage = "answered", !.call.answer = a]

HttpAnswer(status, data) == [kind |-> "response", status |-> status, data |-> data]

\* the server handles the auth call in flight
ServerAnswersAuth ==
    LET call == client.call
        req == call.request
    IN  /\ call.stage = "sent"
        /\ CASE call.op = "verify-token" ->
                  LET a == authenticateToken(req.authorization, now)
                      r == IF a.next THEN verifyTokenHandler(users, a.user)
                           ELSE [status |-> a.status, body |-> a.body]
                  IN  /\ resp' = Response("verify-token", req.authorization, r.status,
                                          r.body, a.user, Prop(a.user, "id"), a.next,
                                          IF a.next THEN 1 ELSE 0)
                      /\ client' = Answered(client, HttpAnswer(r.status, r.body))
                      /\ UNCHANGED <<users, issued>>
             [] call.op = "/auth/login" ->
                  LET v == loginValidationRules(req.body)
                      r == IF v.errors # <<>>
                           THEN validate(v.errors) @@ [token |-> Null]
                           ELSE loginHandler(users, v.body, now)
                  IN  /\ issued' \in (IF r.token = Null THEN {issued}
                                      ELSE Wallets(issued, r.token))
                      /\ resp' = Response("login", req.body, r.status, r.body, Undefined,
                                          Undefined, v.errors = <<>>,
                                          IF v.errors = <<>> THEN 1 ELSE 0)
                      /\ client' = Answered(client, HttpAnswer(r.status, r.body))
                      /\ UNCHANGED users
             [] call.op = "/auth/signup" ->
                  LET v == signupValidationRules(req.body)
                      r == IF v.errors # <<>>
                           THEN validate(v.errors) @@ [token |-> Null, tbl |-> users,
                                                       queries |-> 0]
                           ELSE signupHandler(users, v.body, now)
                  IN  /\ r.tbl # users => Len(users) < MaxUsers
                      /\ users' = r.tbl
                      /\ issued' \in (IF r.token = Null THEN {issued}
                                      ELSE Wallets(issued, r.token))
                      /\ resp' = Response("signup", req.body, r.status, r.body, Undefined,
                                          Undefined, v.errors = <<>>, r.queries)
                      /\ client' = Answered(client, HttpAnswer(r.status, r.body))
        /\ UNCHANGED <<workout_entries, personal_records, now, logged, pending>>

\* no response reaches the client
NetworkError == [kind |-> "network"]

\* the answer of a route whose query the store failed
StoreFailure(op) ==
    HttpAnswer(500, [msg |-> CASE op = "/auth/login" -> "Server error during login."
                               [] op = "/auth/signup" -> "Server error during signup."
                               [] OTHER -> "Server error during token verification."])

\* the call fails: on the way, or in the server when the store fails its query
\* (a token the middleware refuses never gets to a query)
AuthCallFails ==
    /\ client.call.stage = "sent"
    /\ \E a \in {NetworkError, StoreFailure(client.call.op)} :
          /\ (a.kind = "response" /\ client.call.op = "verify-token")
                => authenticateToken(client.call.request.authorization, now).next
          /\ client' = Answered(client, a)
    /\ UNCHANGED <<users, workout_entries, personal_records, now, issued, resp, logged,
                   pending>>

\* axios resolves a 2xx response and rejects every other outcome
Resolves(a) == a.kind = "response" /\ a.status \in 200..299

\* the message handleAuthOperation shows for a rejected call
displayMessage(a) ==
    IF a.kind = "response"
    THEN IF "msg" \in DOMAIN a.data THEN Text(a.data.msg)
         ELSE IF "errors" \in DOMAIN a.data /\ Len(a.data.errors) > 0
         THEN Text(a.data.errors[1].msg)
         ELSE Text("An unexpected error occurred during authentication.")
    ELSE Text("Network Error")

\* a response body as the object axios hands over
Data(d) == d @@ [t |-> "object"]

\* data.key of a response body
Field(data, key) == IF key \in DOMAIN data THEN Data(data[key]) ELSE Undefined

\* an initial check that logs out only when verifyToken returns null, and keeps
\* what is stored when the call throws
initialAuthCheckSettlesKeepsOnError(c, a) ==
    LET verifiedUser == IF Resolves(a) THEN Data(a.data) ELSE Null
        throws == ~Resolves(a) /\ ~(a.kind = "response" /\ a.status \in {401, 403})
        after == IF throws THEN c
                 ELSE IF Truthy(verifiedUser)
                 THEN setAuthData(c, verifiedUser, c.call.storedToken)
                 ELSE performLogout(c)
    IN  [after EXCEPT !.isLoadingAuth = FALSE, !.call = NoCall]

\* initialAuthCheck from the settling of apiService.verifyToken to its end
initialAuthCheckSettles(c, a) ==
    LET verifiedUser == IF Resolves(a) THEN Data(a.data) ELSE Null
        throws == ~Resolves(a) /\ ~(a.kind = "response" /\ a.status \in {401, 403})
        after == IF ~throws /\ Truthy(verifiedUser)
                 THEN setAuthData(c, verifiedUser, c.call.storedToken)
                 ELSE performLogout(c)
    IN  [after EXCEPT !.isLoadingAuth = FALSE, !.call = NoCall]

\* handleAuthOperation that leaves isLoadingAuth set when the call is rejected
handleAuthOperationSettlesStillLoading(c, a) ==
    LET response == IF Resolves(a) THEN Data(a.data) ELSE Null
    IN  IF /\ Truthy(response) /\ Truthy(Field(response, "token"))
           /\ Truthy(Field(response, "user"))
        THEN [setAuthData(c, Field(response, "user"), response.token)
                EXCEPT !.isLoadingAuth = FALSE, !.call = NoCall]
        ELSE [c EXCEPT !.authError = displayMessage(a), !.call = NoCall]

\* handleAuthOperation from the settling of its apiCall to its end
handleAuthOperationSettles(c, a) ==
    LET response == IF Resolves(a) THEN Data(a.data) ELSE Null
    IN  IF /\ Truthy(response) /\ Truthy(Field(response, "token"))
           /\ Truthy(Field(response, "user"))
        THEN [setAuthData(c, Field(response, "user"), response.token)
                EXCEPT !.isLoadingAuth = FALSE, !.call = NoCall]
        ELSE [c EXCEPT !.authError = IF Resolves(a)
                                     THEN Text("Authentication failed: Invalid response from server")
                                     ELSE displayMessage(a),
                       !.isLoadingAuth = FALSE, !.call = NoCall]

\* the auth call in flight settles and its caller runs on
AuthCallSettles ==
    /\ client.call.stage = "answered"
    /\ client' = IF client.call.op = "verify-token"
                 THEN initialAuthCheckSettles(client, client.call.answer)
                 ELSE handleAuthOperationSettles(client, client.call.answer)
    /\ UNCHANGED <<users, workout_entries, personal_records, now, issued, resp, logged,
                   pending>>

(***************************************************************************)
(* WorkoutForm on the dashboard.                                           *)
(***************************************************************************)
Digits == <<"0", "1", "2", "3", "4", "5", "6", "7", "8", "9">>

IsDigit(ch) == \E d \in 1..10 : Digits[d] = ch

RECURSIVE LeadingNumber(_, _)
\* the number the leading digits of a text spell, read after the number n
LeadingNumber(s, n) ==
    IF s = <<>> \/ ~IsDigit(Head(s)) THEN n
    ELSE LeadingNumber(Tail(s), 10 * n + (CHOOSE d \in 0..9 : Digits[d + 1] = Head(s)))

NaN == [t |-> "number", v |-> 0, nan |-> TRUE]

isNaN(x) == "nan" \in DOMAIN x

\* parseInt of a text without sign or blanks (parseFloat agrees on whole numbers)
parseInt(str) ==
    IF str.v = <<>> \/ ~IsDigit(Head(str.v)) THEN NaN ELSE Num(LeadingNumber(str.v, 0))

\* what the user fills in
FormInputs ==
    { [t |-> "object", exercise_name |-> Str(e), sets |-> Str(st), reps |-> Str(<<"5">>),
       weight |-> Str(w), duration |-> Str(<<>>), date |-> DateStr(1)] :
        e \in { <<>>, <<"B", "P">> }, st \in { <<"3">>, <<"x">> }, w \in { <<>>, <<"1">> } }

\* apiService.logWorkout called with the arguments args: its parameter is the first
logWorkout(c, args) == Request(c, "/workouts/", args[1])

\* the message handleSubmit stops with ("" when the fields pass)
FormError(c, formData) ==
    IF ~Truthy(c.token) THEN "You must be logged in to log a workout."
    ELSE IF ~Truthy(formData.exercise_name) \/ ~Truthy(formData.date)
    THEN "Exercise name and date are required."
    ELSE IF Truthy(formData.sets) /\ isNaN(parseInt(formData.sets))
    THEN "Sets must be a number."
    ELSE IF Truthy(formData.reps) /\ isNaN(parseInt(formData.reps))
    THEN "Reps must be a number."
    ELSE IF Truthy(formData.weight) /\ isNaN(parseInt(formData.weight))
    THEN "Weight must be a number."
    ELSE IF Truthy(formData.duration) /\ isNaN(parseInt(formData.duration))
    THEN "Duration must be a number (e.g., in seconds or minutes)."
    ELSE ""

\* the workoutData handleSubmit builds
WorkoutData(formData) ==
    LET number(field) == IF Truthy(field) THEN parseInt(field) ELSE Null
    IN  [formData EXCEPT !.sets = number(formData.sets), !.reps = number(formData.reps),
                         !.weight = number(formData.weight),
                         !.duration = number(formData.duration)]

\* ProtectedRoute shows the dashboard to an authenticated user when no auth
\* operation is loading; handleSubmit runs up to its await, or to its end when a
\* field is refused
handleSubmit(formData) ==
    /\ ~client.isLoadingAuth /\ isAuthenticated(client)
    /\ client.workout.stage = "idle"
    /\ client' =
          IF FormError(client, formData) # ""
          THEN [client EXCEPT !.workout.error = Text(FormError(client, formData)),
                              !.workout.successMessage = Null]
          ELSE [client EXCEPT !.workout =
                   [stage |-> "sent", formData |-> formData,
                    request |-> logWorkout(client, <<client.token, WorkoutData(formData)>>),
                    answer |-> Null, error |-> Null, successMessage |-> Null]]
    /\ UNCHANGED <<users, workout_entries, personal_records, now, issued, resp, logged,
                   pending>>

\* req.body as express.json and express.urlencoded leave it: a text that is not
\* JSON gives none of the fields the route reads
ReqBody(data) ==
    IF data.t = "object" THEN data @@ [user_id |-> Undefined]
    ELSE [date |-> Undefined, exercise_name |-> Undefined, sets |-> Undefined,
          reps |-> Undefined, weight |-> Undefined, duration |-> Undefined,
          user_id |-> Undefined]

\* the server handles the POST of the form
ServerAnswersWorkout ==
    LET req == client.workout.request
        a == authenticateToken(req.authorization, now)
        r == logWorkoutHandler(DB, a.user, ReqBody(req.body))
    IN  /\ client.workout.stage = "sent"
        /\ IF ~a.next
           THEN /\ resp' = Response("log-workout", req, a.status, a.body, Undefined,
                                    Undefined, FALSE, 0)
                /\ client' = [client EXCEPT !.workout.stage = "answered",
                                            !.workout.answer = HttpAnswer(a.status, a.body)]
                /\ UNCHANGED <<workout_entries, personal_records>>
           ELSE /\ workout_entries' = r.workout_entries
                /\ personal_records' = r.personal_records
                /\ resp' = Response("log-workout", req, r.status, r.body, a.user,
                                    Prop(a.user, "id"), TRUE, r.queries)
                /\ client' = [client EXCEPT !.workout.stage = "answered",
                                            !.workout.answer = HttpAnswer(r.status, r.body)]
        /\ UNCHANGED <<users, now, issued, logged, pending>>

WorkoutCallFails ==
    /\ client.workout.stage = "sent"
    /\ client' = [client EXCEPT !.workout.stage = "answered",
                                !.workout.answer = NetworkError]
    /\ UNCHANGED <<users, workout_entries, personal_records, now, issued, resp, logged,
                   pending>>

\* handleSubmit from the settling of apiService.logWorkout to its end
WorkoutCallSettles ==
    LET a == client.workout.answer
    IN  /\ client.workout.stage = "answered"
        /\ client' = [client EXCEPT !.workout =
              IF Resolves(a)
              THEN [IdleForm EXCEPT !.successMessage = Text("Workout logged successfully! ")]
              ELSE [IdleForm EXCEPT !.formData = client.workout.formData,
                      !.error = IF a.kind = "response" /\ "message" \in DOMAIN a.data
                                THEN Text(a.data.message)
                                ELSE IF a.kind = "response"
                                THEN Text("Request failed")
                                ELSE Text("Network Error")]]
        /\ UNCHANGED <<users, workout_entries, personal_records, now, issued, resp, logged,
                       pending>>

\* the timer handleSubmit sets clears the messages
ClearMessages ==
    /\ client.workout.stage = "idle"
    /\ client.workout.error # Null \/ client.workout.successMessage # Null
    /\ client' = [client EXCEPT !.workout.error = Null, !.workout.successMessage = Null]
    /\ UNCHANGED <<users, workout_entries, personal_records, now, issued, resp, logged,
                   pending>>

NextClient ==
    \/ Reload
    \/ handleLogout
    \/ \E op \in {"/auth/login", "/auth/signup"}, cr \in Credentials :
          handleAuthOperation(op, cr)
    \/ ServerAnswersAuth
    \/ AuthCallFails
    \/ AuthCallSettles
    \/ Tick

SpecClient == InitClient /\ [][NextClient]_vars

\* a user logs in and uses the form of the dashboard
NextForm ==
    \/ \E cr \in Credentials : handleAuthOperation("/auth/login", cr)
    \/ ServerAnswersAuth
    \/ AuthCallSettles
    \/ handleLogout
    \/ \E f \in FormInputs : handleSubmit(f)
    \/ ServerAnswersWorkout
    \/ WorkoutCallFails
    \/ WorkoutCallSettles
    \/ ClearMessages

SpecForm == InitClient /\ [][NextForm]_vars

(***************************************************************************)
(* Properties of the client.                                               *)
(***************************************************************************)
\* no token in localStorage, in the React state or in the default header
Cleared(c) == c.lsToken = Null /\ c.token = Null /\ c.header = Undefined

\* the step in which a login or signup call that the server accepted settles
AuthSucceeds ==
    /\ client.call.op \in {"/auth/login", "/auth/signup"}
    /\ client.call.stage = "answered" /\ Resolves(client.call.answer)
    /\ client'.call = NoCall

C27_TokensAgree ==
    ~client.isLoadingAuth =>
        \/ /\ Truthy(client.token) /\ client.lsToken = client.token
           /\ client.header = Bearer(client.token) /\ Truthy(client.user)
        \/ Cleared(client)

\* a login has succeeded
C27_Witness ==
    /\ ~client.isLoadingAuth /\ isAuthenticated(client)
    /\ client.header = Bearer(client.lsToken)

\* C28: when the API call of the initial check, of a login or of a signup
\* settles, whatever its outcome, isLoadingAuth is set back to false.
C28_LoadingEnds ==
    [][ (client.call.stage = "answered" /\ client'.call = NoCall)
            => ~client'.isLoadingAuth ]_vars

\* a login the server refused has settled
C28_Witness ==
    /\ client.call = NoCall /\ ~client.isLoadingAuth
    /\ client.authError = Text("Invalid credentials")

\* C29: the POST /workouts request a valid form sends carries the form's
\* exercise_name and date and the numbers of its sets, reps, weight and duration.
C29_FormBodySent ==
    [][ (client.workout.stage # "sent" /\ client'.workout.stage = "sent") =>
          LET sent == client'.workout.request.body
              form == WorkoutData(client'.workout.formData)
          IN  \A key \in {"exercise_name", "date", "sets", "reps", "weight", "duration"} :
                  Prop(sent, key) = form[key] ]_vars

====
